---- MODULE Spec2Model ----
(***************************************************************************)
(* tabby: print the contents of several small text files.  One-line files  *)
(* are printed first as "path: content" rows aligned on the path column,   *)
(* multi-line files follow as blocks.  The model follows src/main.rs:      *)
(* Text::new / Text::read, the built-in parse_args, and run.               *)
(*                                                                         *)
(* A string is a sequence of characters; a character is a TLA+ string      *)
(* naming one Unicode scalar value ("U+00E9" is a two-byte character).     *)
(***************************************************************************)
EXTENDS Integers, Sequences, FiniteSets, TLC

VARIABLES args, pc, i, files, had_err, max_pathlen, stdout, stderr, exit,
          reads, text_in, text_out, text_again, tpc

vars == <<args, pc, i, files, had_err, max_pathlen, stdout, stderr, exit,
          reads, text_in, text_out, text_again, tpc>>

runVars == <<args, pc, i, files, had_err, max_pathlen, stdout, stderr, exit, reads>>
textVars == <<text_in, text_out, text_again, tpc>>

----------------------------------------------------------------------------
(* Bounds *)

MaxArgs == 3
MaxFileLen == 2
MaxTextLen == 4

----------------------------------------------------------------------------
(* Strings *)

NL == "\n"

SeqsUpTo(S, n) == UNION {[1..k -> S] : k \in 0..n}

\* UTF-8 encoded width of one character
ByteLen(c) == IF c = "U+00E9" THEN 2 ELSE 1

\* String::len: the length in bytes
RECURSIVE StrLen(_)
StrLen(s) == IF s = <<>> THEN 0 ELSE ByteLen(Head(s)) + StrLen(Tail(s))

\* s.chars().count(), what Formatter padding measures
CharCount(s) == Len(s)

RECURSIVE count_newlines(_)
count_newlines(s) ==
    IF s = <<>> THEN 0
    ELSE (IF Head(s) = NL THEN 1 ELSE 0) + count_newlines(Tail(s))

\* str::trim_end_matches('\n')
RECURSIVE trim_end_matches(_)
trim_end_matches(s) ==
    IF s # <<>> /\ s[Len(s)] = NL
    THEN trim_end_matches(SubSeq(s, 1, Len(s) - 1))
    ELSE s

\* str::ends_with('\n')
ends_with_newline(s) == s # <<>> /\ s[Len(s)] = NL

\* String::truncate(new_len)
truncate(s, n) == IF n < Len(s) THEN SubSeq(s, 1, n) ELSE s

\* variant: only a leading "--" counts as a flag
starts_with_two_dashes(s) == Len(s) >= 2 /\ s[1] = "-" /\ s[2] = "-"

\* str::starts_with('-')
starts_with_dash(s) == s # <<>> /\ s[1] = "-"

----------------------------------------------------------------------------
(* enum Text *)

Oneline(s) == [tag |-> "Oneline", s |-> s]
Multiline(s) == [tag |-> "Multiline", s |-> s]
TextErr(e) == [tag |-> "Err", s |-> e]

\* variant: the multi-line branch forgets to add the missing newline
TextNewNoPush(text) ==
    LET trimmed == trim_end_matches(text)
        orig_count == count_newlines(text)
        trimmed_count == count_newlines(trimmed)
    IN  IF orig_count = 0 THEN Oneline(text)
        ELSE IF trimmed_count = 0 THEN Oneline(truncate(text, Len(trimmed)))
        ELSE Multiline(text)

\* variant: the second branch forgets to truncate
TextNewNoTruncate(text) ==
    LET trimmed == trim_end_matches(text)
        orig_count == count_newlines(text)
        trimmed_count == count_newlines(trimmed)
    IN  IF orig_count = 0 THEN Oneline(text)
        ELSE IF trimmed_count = 0 THEN Oneline(text)
        ELSE Multiline(IF ~ends_with_newline(text) THEN Append(text, NL) ELSE text)

\* variant: the multi-line branch always adds a newline
TextNewAlwaysPush(text) ==
    LET trimmed == trim_end_matches(text)
        orig_count == count_newlines(text)
        trimmed_count == count_newlines(trimmed)
    IN  IF orig_count = 0 THEN Oneline(text)
        ELSE IF trimmed_count = 0 THEN Oneline(truncate(text, Len(trimmed)))
        ELSE Multiline(Append(text, NL))

TextNew(text) ==
    LET trimmed == trim_end_matches(text)
        orig_count == count_newlines(text)
        trimmed_count == count_newlines(trimmed)
    IN  IF orig_count = 0 THEN Oneline(text)
        ELSE IF trimmed_count = 0 THEN Oneline(truncate(text, Len(trimmed)))
        ELSE Multiline(IF ~ends_with_newline(text) THEN Append(text, NL) ELSE text)

\* the outcome of std::fs::read_to_string is r
TextRead(r) == IF r.ok THEN TextNew(r.val) ELSE TextErr(r.val)

is_multiline(text) == text.tag = "Multiline"

is_err(text) == text.tag = "Err"

\* impl Display for Text (no width given: the payload is written as is)
Display(text) ==
    IF is_err(text) THEN <<"[", "Error: ">> \o text.s \o <<"]">>
    ELSE text.s

\* {s:>width$}: left padding up to width, measured in characters
PadLeft(s, width) ==
    IF CharCount(s) >= width THEN s
    ELSE [k \in 1..(width - CharCount(s)) |-> " "] \o s

----------------------------------------------------------------------------
(* Inputs *)

HelpShort == <<"-", "h">>
HelpLong == <<"-", "-", "h", "e", "l", "p">>

PathUniverse == {<<"a">>, <<"b", "b">>, <<"U+00E9">>}
ArgUniverse == PathUniverse \cup {HelpShort, HelpLong, <<"-", "x">>}

FileChars == {"a", NL}
TextChars == {"a", "b", NL}

ErrKinds == {<<"NotFound">>}

ReadOutcomes ==
    {[ok |-> TRUE, val |-> s] : s \in SeqsUpTo(FileChars, MaxFileLen)}
    \cup {[ok |-> FALSE, val |-> e] : e \in ErrKinds}

HELP == <<"Usage: tabby FILE [FILE...]">>

NoText == [tag |-> "None", s |-> <<>>]

----------------------------------------------------------------------------
(* The run of the program *)

Init ==
    /\ args \in SeqsUpTo(ArgUniverse, MaxArgs)
    /\ pc = "parse_args"
    /\ i = 0
    /\ files = <<>>
    /\ had_err = FALSE
    /\ max_pathlen = 0
    /\ stdout = <<>>
    /\ stderr = <<>>
    /\ exit = -1
    /\ reads = <<>>
    /\ text_in = <<>>
    /\ text_out = NoText
    /\ text_again = NoText
    /\ tpc = "idle"

\* variant: the missing-argument branch reports but does not return
ParseEmptyFallsThrough ==
    /\ pc = "parse_args"
    /\ args = <<>>
    /\ stderr' = Append(stderr, [kind |-> "error", msg |-> <<"missing argument">>, help |-> HELP])
    /\ pc' = "parse_loop"
    /\ i' = 1
    /\ UNCHANGED <<args, files, had_err, max_pathlen, stdout, exit, reads, textVars>>

\* parse_args: no arguments at all
ParseEmpty ==
    /\ pc = "parse_args"
    /\ args = <<>>
    /\ stderr' = Append(stderr, [kind |-> "error", msg |-> <<"missing argument">>, help |-> HELP])
    /\ exit' = 2
    /\ pc' = "exited"
    /\ UNCHANGED <<args, i, files, had_err, max_pathlen, stdout, reads, textVars>>

ParseBegin ==
    /\ pc = "parse_args"
    /\ args # <<>>
    /\ pc' = "parse_loop"
    /\ i' = 1
    /\ UNCHANGED <<args, files, had_err, max_pathlen, stdout, stderr, exit, reads, textVars>>

\* variant: the short spelling is not matched
IsHelpLongOnly(arg) == arg = HelpLong

IsHelp(arg) == arg = HelpShort \/ arg = HelpLong

ParseHelp ==
    /\ pc = "parse_loop"
    /\ i <= Len(args)
    /\ IsHelp(args[i])
    /\ stdout' = Append(stdout, [kind |-> "help", idx |-> 0, line |-> HELP])
    /\ exit' = 0
    /\ pc' = "exited"
    /\ UNCHANGED <<args, i, files, had_err, max_pathlen, stderr, reads, textVars>>

ParseInvalid ==
    /\ pc = "parse_loop"
    /\ i <= Len(args)
    /\ ~IsHelp(args[i])
    /\ starts_with_dash(args[i])
    /\ stderr' = Append(stderr, [kind |-> "error", msg |-> <<"invalid argument: ">> \o args[i], help |-> HELP])
    /\ exit' = 2
    /\ pc' = "exited"
    /\ UNCHANGED <<args, i, files, had_err, max_pathlen, stdout, reads, textVars>>

ParseSkip ==
    /\ pc = "parse_loop"
    /\ i <= Len(args)
    /\ ~IsHelp(args[i])
    /\ ~starts_with_dash(args[i])
    /\ i' = i + 1
    /\ UNCHANGED <<args, pc, files, had_err, max_pathlen, stdout, stderr, exit, reads, textVars>>

ParseOk ==
    /\ pc = "parse_loop"
    /\ i > Len(args)
    /\ pc' = "read"
    /\ i' = 1
    /\ UNCHANGED <<args, files, had_err, max_pathlen, stdout, stderr, exit, reads, textVars>>

\* run: the map closure, one path per step
ReadFile ==
    /\ pc = "read"
    /\ i <= Len(args)
    /\ \E r \in ReadOutcomes :
         files' = Append(files, [path |-> args[i], text |-> TextRead(r)])
    /\ reads' = Append(reads, args[i])
    /\ i' = i + 1
    /\ UNCHANGED <<args, pc, had_err, max_pathlen, stdout, stderr, exit, textVars>>

PathLens(fs) == {StrLen(fs[k].path) : k \in 1..Len(fs)}

MaxOf(S) == CHOOSE m \in S : \A n \in S : n <= m

\* run: collect, had_err = false, max_pathlen (.expect panics on no entry)
ComputeMax ==
    /\ pc = "read"
    /\ i > Len(args)
    /\ had_err' = FALSE
    /\ IF files = <<>>
       THEN /\ pc' = "panicked"
            /\ exit' = 101
            /\ UNCHANGED <<max_pathlen, i>>
       ELSE /\ max_pathlen' = MaxOf(PathLens(files))
            /\ pc' = "pass1"
            /\ i' = 1
            /\ UNCHANGED exit
    /\ UNCHANGED <<args, files, stdout, stderr, reads, textVars>>

Row(k, path, text, width) ==
    [kind |-> "row", idx |-> k,
     line |-> PadLeft(path, width) \o <<":", " ">> \o Display(text) \o <<NL>>]

Block(k, path, text) ==
    [kind |-> "block", idx |-> k,
     line |-> <<NL>> \o path \o <<":", NL>> \o Display(text)]

\* variant: had_err is assigned instead of or-ed
Pass1StepOverwritesErr ==
    /\ pc = "pass1"
    /\ i <= Len(files)
    /\ IF ~is_multiline(files[i].text)
       THEN /\ stdout' = Append(stdout, Row(i, files[i].path, files[i].text, max_pathlen))
            /\ had_err' = is_err(files[i].text)
       ELSE UNCHANGED <<stdout, had_err>>
    /\ i' = i + 1
    /\ UNCHANGED <<args, pc, files, max_pathlen, stderr, exit, reads, textVars>>

\* variant: the first loop is not filtered
Pass1StepNoFilter ==
    /\ pc = "pass1"
    /\ i <= Len(files)
    /\ stdout' = Append(stdout, Row(i, files[i].path, files[i].text, max_pathlen))
    /\ had_err' = (had_err \/ is_err(files[i].text))
    /\ i' = i + 1
    /\ UNCHANGED <<args, pc, files, max_pathlen, stderr, exit, reads, textVars>>

\* run: the loop over the entries that are not multi-line
Pass1Step ==
    /\ pc = "pass1"
    /\ i <= Len(files)
    /\ IF ~is_multiline(files[i].text)
       THEN /\ stdout' = Append(stdout, Row(i, files[i].path, files[i].text, max_pathlen))
            /\ had_err' = (had_err \/ is_err(files[i].text))
       ELSE UNCHANGED <<stdout, had_err>>
    /\ i' = i + 1
    /\ UNCHANGED <<args, pc, files, max_pathlen, stderr, exit, reads, textVars>>

Pass1Done ==
    /\ pc = "pass1"
    /\ i > Len(files)
    /\ pc' = "pass2"
    /\ i' = 1
    /\ UNCHANGED <<args, files, had_err, max_pathlen, stdout, stderr, exit, reads, textVars>>

\* variant: the second loop is not filtered
Pass2StepNoFilter ==
    /\ pc = "pass2"
    /\ i <= Len(files)
    /\ stdout' = Append(stdout, Block(i, files[i].path, files[i].text))
    /\ i' = i + 1
    /\ UNCHANGED <<args, pc, files, had_err, max_pathlen, stderr, exit, reads, textVars>>

\* run: the loop over the multi-line entries
Pass2Step ==
    /\ pc = "pass2"
    /\ i <= Len(files)
    /\ IF is_multiline(files[i].text)
       THEN stdout' = Append(stdout, Block(i, files[i].path, files[i].text))
       ELSE UNCHANGED stdout
    /\ i' = i + 1
    /\ UNCHANGED <<args, pc, files, had_err, max_pathlen, stderr, exit, reads, textVars>>

\* run's result and main's exit code
Finish ==
    /\ pc = "pass2"
    /\ i > Len(files)
    /\ exit' = (IF had_err THEN 1 ELSE 0)
    /\ pc' = "exited"
    /\ UNCHANGED <<args, i, files, had_err, max_pathlen, stdout, stderr, reads, textVars>>

Next ==
    \/ ParseEmpty
    \/ ParseBegin
    \/ ParseHelp
    \/ ParseInvalid
    \/ ParseSkip
    \/ ParseOk
    \/ ReadFile
    \/ ComputeMax
    \/ Pass1Step
    \/ Pass1Done
    \/ Pass2Step
    \/ Finish

Spec == Init /\ [][Next]_vars

----------------------------------------------------------------------------
(* Text::new on its own, applied to every bounded text, then to its result *)

InitText ==
    /\ text_in \in SeqsUpTo(TextChars, MaxTextLen)
    /\ text_out = NoText
    /\ text_again = NoText
    /\ tpc = "input"
    /\ args = <<>>
    /\ pc = "idle"
    /\ i = 0
    /\ files = <<>>
    /\ had_err = FALSE
    /\ max_pathlen = 0
    /\ stdout = <<>>
    /\ stderr = <<>>
    /\ exit = -1
    /\ reads = <<>>

Classify ==
    /\ tpc = "input"
    /\ text_out' = TextNew(text_in)
    /\ tpc' = "classified"
    /\ UNCHANGED <<text_in, text_again, runVars>>

Reclassify ==
    /\ tpc = "classified"
    /\ text_again' = TextNew(text_out.s)
    /\ tpc' = "reclassified"
    /\ UNCHANGED <<text_in, text_out, runVars>>

NextText == Classify \/ Reclassify

SpecText == InitText /\ [][NextText]_vars

----------------------------------------------------------------------------
(* Vocabulary of the properties *)

HelpFlags == {HelpShort, HelpLong}

LooksLikeFlag(a) == Len(a) >= 1 /\ a[1] = "-"

\* no argument is a flag: parse_args returns Ok(args)
ParsedOk == args # <<>> /\ \A k \in 1..Len(args) : ~LooksLikeFlag(args[k])

\* the first argument that starts with '-' is a help flag
HelpComesFirst ==
    \E k \in 1..Len(args) :
        /\ args[k] \in HelpFlags
        /\ \A j \in 1..(k - 1) : ~LooksLikeFlag(args[j])

\* the first argument that starts with '-' is not a help flag
BadFlagComesFirst ==
    \E k \in 1..Len(args) :
        /\ LooksLikeFlag(args[k])
        /\ args[k] \notin HelpFlags
        /\ \A j \in 1..(k - 1) : ~LooksLikeFlag(args[j])

HelpAnywhere == \E k \in 1..Len(args) : args[k] \in HelpFlags

BadFlagAnywhere ==
    \E k \in 1..Len(args) : LooksLikeFlag(args[k]) /\ args[k] \notin HelpFlags

HasNewline(s) == \E k \in 1..Len(s) : s[k] = NL

\* how many newline characters s ends with
TrailingNewlines(s) ==
    Cardinality({n \in 1..Len(s) : \A k \in (Len(s) - n + 1)..Len(s) : s[k] = NL})

\* s without its trailing run of newlines
Stripped(s) == SubSeq(s, 1, Len(s) - TrailingNewlines(s))

LeadingSpaces(s) ==
    Cardinality({n \in 1..Len(s) : \A k \in 1..n : s[k] = " "})

\* the column of the first ':' of a line
SepCol(s) == CHOOSE c \in 1..Len(s) : s[c] = ":" /\ \A k \in 1..(c - 1) : s[k] # ":"

Rows == {k \in 1..Len(stdout) : stdout[k].kind = "row"}
Blocks == {k \in 1..Len(stdout) : stdout[k].kind = "block"}
ItemsOf(n) == {k \in 1..Len(stdout) : stdout[k].idx = n}

UsageExit ==
    /\ exit = 2
    /\ stdout = <<>>
    /\ Len(stderr) = 1
    /\ stderr[1].kind = "error"
    /\ stderr[1].help = HELP

HelpExit ==
    /\ exit = 0
    /\ stderr = <<>>
    /\ Len(stdout) = 1
    /\ stdout[1].kind = "help"
    /\ stdout[1].line = HELP

NoFileTouched ==
    /\ reads = <<>>
    /\ files = <<>>
    /\ Rows = {}
    /\ Blocks = {}
    /\ pc \in {"parse_args", "parse_loop", "exited"}

----------------------------------------------------------------------------
(* Text::new *)

\* C1 (as stated): a Multiline payload ends with exactly one newline, whatever
\* run of trailing newlines the text that was read ended with.
C1_ExactlyOneTrailingNewline ==
    (tpc # "input" /\ is_multiline(text_out)) => TrailingNewlines(text_out.s) = 1

\* C1 (amended): a Multiline payload ends with a newline; it is the text itself
\* when the text ended with a newline and the text plus one newline otherwise,
\* so its trailing run is that of the text, or 1 when the text had none.
C1_TrailingNewlineKept ==
    (tpc # "input" /\ is_multiline(text_out)) =>
        /\ TrailingNewlines(text_out.s) >= 1
        /\ TrailingNewlines(text_out.s) =
             (IF TrailingNewlines(text_in) = 0 THEN 1 ELSE TrailingNewlines(text_in))
        /\ Stripped(text_out.s) = Stripped(text_in)
        /\ TrailingNewlines(text_in) <= 1 => TrailingNewlines(text_out.s) = 1

C1_Witness ==
    /\ tpc = "classified"
    /\ is_multiline(text_out)
    /\ TrailingNewlines(text_in) >= 2
    /\ text_out.s = text_in

C10_Idempotent ==
    /\ tpc = "reclassified" => text_again = text_out
    /\ (tpc # "input" /\ HasNewline(Stripped(text_in)) /\ TrailingNewlines(text_in) = 1)
         => text_out = Multiline(text_in)
    /\ (tpc # "input" /\ text_in \in {<<"a", NL, "b">>, <<"a", NL, "b", NL>>})
         => text_out = Multiline(<<"a", NL, "b", NL>>)

C10_Witness ==
    /\ tpc = "reclassified"
    /\ text_in = <<"a", NL, "b">>
    /\ text_again = Multiline(<<"a", NL, "b", NL>>)

----------------------------------------------------------------------------
(* parse_args *)

\* C3 (as stated): with -h or --help anywhere in the arguments, usage goes to
\* standard output, the exit code is 0 and no file is read.
C3_HelpAnywhere ==
    HelpAnywhere => NoFileTouched /\ (pc = "exited" => HelpExit)

\* C3 (amended): when the first argument that starts with '-' is -h or --help,
\* usage goes to standard output, the exit code is 0 and no file is read.
C3_HelpFirst ==
    HelpComesFirst => NoFileTouched /\ (pc = "exited" => HelpExit)

C3_Witness ==
    /\ pc = "exited"
    /\ HelpComesFirst
    /\ Len(args) >= 2
    /\ ~LooksLikeFlag(args[1])
    /\ exit = 0

\* C4 (as stated): with an unrecognized flag anywhere in the arguments, the run
\* is a usage error: help on the error stream, exit code 2, no file read and
\* nothing on standard output.
C4_BadFlagAnywhere ==
    BadFlagAnywhere => NoFileTouched /\ (pc = "exited" => UsageExit)

\* C4 (amended): when the first argument that starts with '-' is neither -h nor
\* --help, the run is a usage error: help on the error stream, exit code 2, no
\* file read and nothing on standard output.
C4_BadFlagFirst ==
    BadFlagComesFirst => NoFileTouched /\ (pc = "exited" => UsageExit)

C4_Witness ==
    /\ pc = "exited"
    /\ BadFlagComesFirst
    /\ HelpAnywhere
    /\ ~LooksLikeFlag(args[1])
    /\ exit = 2

\* C5: with no argument the run prints usage to the error stream and exits
\* with code 2, reading no file and writing nothing to standard output; the
\* maximum path length is never taken over an empty list of entries.
C5_EmptyArgs ==
    /\ args = <<>> => NoFileTouched /\ (pc = "exited" => UsageExit)
    /\ pc # "panicked"
    /\ pc \in {"pass1", "pass2"} => files # <<>>

C5_Witness ==
    /\ args = <<>>
    /\ pc = "exited"
    /\ exit = 2

----------------------------------------------------------------------------
(* run *)

\* C6: after a successful parse the exit status is failure exactly when some
\* entry is a read error; the status exists only once both passes have emitted
\* every entry; every path is read whatever the outcome of the earlier reads.
C6_ExitStatus ==
    ParsedOk =>
        /\ exit # -1 =>
             /\ pc = "exited"
             /\ exit \in {0, 1}
             /\ (exit = 1) <=> (\E k \in 1..Len(files) : is_err(files[k].text))
             /\ Len(files) = Len(args)
             /\ \A n \in 1..Len(files) : ItemsOf(n) # {}
        /\ pc \in {"pass1", "pass2", "exited"} => Len(reads) = Len(args)
        /\ pc = "read" => Len(reads) = i - 1

C6_Witness ==
    /\ pc = "exited"
    /\ ParsedOk
    /\ exit = 1
    /\ Len(files) >= 3
    /\ is_err(files[1].text)
    /\ ~is_err(files[2].text)
    /\ is_multiline(files[3].text)
    /\ Len(stdout) = 3

\* C7: every row of a Oneline or read-error entry comes before every block of
\* a Multiline entry; rows are in argument order, blocks are in argument
\* order; no Multiline entry has a row and no other entry has a block.
C7_TwoPasses ==
    ParsedOk =>
        /\ \A p \in Rows : \A q \in Blocks : p < q
        /\ \A p \in Rows : \A q \in Rows : p < q => stdout[p].idx < stdout[q].idx
        /\ \A p \in Blocks : \A q \in Blocks : p < q => stdout[p].idx < stdout[q].idx
        /\ \A p \in Rows : ~is_multiline(files[stdout[p].idx].text)
        /\ \A p \in Blocks : is_multiline(files[stdout[p].idx].text)
        /\ \A p \in Rows \cup Blocks : files[stdout[p].idx].path = args[stdout[p].idx]
        /\ pc = "pass1" => Blocks = {}

C7_Witness ==
    /\ pc = "exited"
    /\ ParsedOk
    /\ Len(files) = 3
    /\ is_multiline(files[1].text)
    /\ ~is_multiline(files[2].text)
    /\ ~is_multiline(files[3].text)
    /\ Len(stdout) = 3
    /\ stdout[3].kind = "block"

\* C8: every pass-1 row is padded on the left by the maximum path length over
\* all entries minus the length of its own path, which is >= 0, and the ": "
\* separator starts at the same column in every row.
C8_Alignment ==
    (ParsedOk /\ pc \in {"pass1", "pass2", "exited"}) =>
        /\ max_pathlen = MaxOf({StrLen(args[k]) : k \in 1..Len(args)})
        /\ \A p \in Rows :
             /\ max_pathlen - StrLen(args[stdout[p].idx]) >= 0
             /\ LeadingSpaces(stdout[p].line) = max_pathlen - StrLen(args[stdout[p].idx])
        /\ \A p \in Rows : \A q \in Rows : SepCol(stdout[p].line) = SepCol(stdout[q].line)

\* C9: after a successful parse every argument, duplicates included, is read
\* exactly once and gives exactly one output item: a row when it is Oneline or
\* a read error, a block when it is Multiline.
C9_OneItemPerPath ==
    ParsedOk =>
        /\ \A n \in 1..Len(args) : Cardinality(ItemsOf(n)) <= 1
        /\ \A k \in 1..Len(reads) : reads[k] = args[k]
        /\ Len(reads) <= Len(args)
        /\ pc = "exited" =>
             /\ reads = args
             /\ Len(stdout) = Len(args)
             /\ \A n \in 1..Len(args) :
                  /\ Cardinality(ItemsOf(n)) = 1
                  /\ \A p \in ItemsOf(n) :
                       stdout[p].kind = (IF is_multiline(files[n].text) THEN "block" ELSE "row")

C9_Witness ==
    /\ pc = "exited"
    /\ ParsedOk
    /\ Len(args) >= 2
    /\ args[1] = args[2]
    /\ files[1].text # files[2].text
    /\ Len(stdout) = Len(args)

====
